---------------------------- MODULE Spec2Model ----------------------------
(***************************************************************************)
(* The poll / nomination engine of the book club bot                       *)
(* (commands/polls.ts over core/db-schema.ts).                             *)
(*                                                                         *)
(* The database tables are the state.  Every handler is a sequence of      *)
(* db.execute calls; the sequential specifications run a handler as one    *)
(* step, the concurrent ones run it one db.execute at a time.              *)
(*                                                                         *)
(* Text (titles, authors, poll options) is a sequence of one-character     *)
(* strings, so that trimming and formatting are computed.                  *)
(***************************************************************************)
EXTENDS Integers, Sequences, FiniteSets, Bags, TLC

VARIABLES
    bookNominations,  \* table book_nominations, in rowid order
    polls,            \* table polls, in rowid order: polls[i] is the row with id i
    pollVotes,        \* table poll_votes: a bag of rows (the table has no unique index)
    pollWinners,      \* table poll_winners, in rowid order
    response,         \* what the last finished handler answered
    inflight,         \* the requests being handled, one db.execute at a time
    store,            \* CacheService: key -> entry
    tagIndex,         \* CacheService: tag -> set of keys
    now               \* the clock the cache reads

vars == <<bookNominations, polls, pollVotes, pollWinners, response, inflight,
          store, tagIndex, now>>

\* the state of the cache service, which no command handler touches
cacheVars == <<store, tagIndex, now>>

\* new Map()
emptyMap == [k \in {} |-> k]

\* the cache service as constructed
cacheCreated == store = emptyMap /\ tagIndex = emptyMap /\ now = 0

-----------------------------------------------------------------------------
(* Bounds and input domains *)

MaxNominations == 3   \* rows of book_nominations at one time
MaxPolls == 3         \* rows of polls
MaxRequests == 2      \* requests in flight at one time (concurrent specifications)
MaxCount == 5         \* votes of one option, where the ranking is run on its own

Guilds == {"g1", "g2"}
Months == {"2026-01", "2026-02"}
Voters == {"u1", "u2", "u3"}
TitleInputs == { <<"D">>, <<" ", "N">>, <<"E", " ">>, <<"F">>, <<" ">>, <<>> }
AuthorInputs == { <<"H">>, <<" ">>, <<>> }
OptionIndexes == 0 .. 2
PollIds == 1 .. MaxPolls

NULL == 0
PENDING == "pending"

-----------------------------------------------------------------------------
(* Text *)

RECURSIVE trimStart(_)
trimStart(s) == IF s # <<>> /\ Head(s) = " " THEN trimStart(Tail(s)) ELSE s

RECURSIVE trimEnd(_)
trimEnd(s) ==
    IF s # <<>> /\ s[Len(s)] = " " THEN trimEnd(SubSeq(s, 1, Len(s) - 1)) ELSE s

\* String.prototype.trim
trim(s) == trimEnd(trimStart(s))

\* `${title.trim()} by ${author.trim()}`
bookEntry(title, author) == trim(title) \o <<" ", "b", "y", " ">> \o trim(author)

-----------------------------------------------------------------------------
(* Sequences *)

RECURSIVE Ascending(_)
\* a finite set of integers as an ascending sequence (rowid order)
Ascending(S) ==
    IF S = {} THEN <<>>
    ELSE LET m == CHOOSE x \in S : \A y \in S : x <= y
         IN <<m>> \o Ascending(S \ {m})

\* Array.prototype.slice(0, n)
slice(s, n) == SubSeq(s, 1, IF Len(s) < n THEN Len(s) ELSE n)

-----------------------------------------------------------------------------
(* Tally *)

RECURSIVE sumCopies(_, _, _, _)
\* count(*) of the rows of one poll and one option, over the voters in V
sumCopies(votes, pollId, i, V) ==
    IF V = {} THEN 0
    ELSE LET v == CHOOSE x \in V : TRUE
         IN CopiesIn([pollId |-> pollId, optionIndex |-> i, oderId |-> v], votes)
            + sumCopies(votes, pollId, i, V \ {v})

\* select optionIndex, count(*) ... where pollId = ? group by optionIndex,
\* then pollOptions.map((_, i) => found ? Number(found.count) : 0)
voteCountArray(votes, pollId, pollOptions) ==
    [k \in 1 .. Len(pollOptions) |-> sumCopies(votes, pollId, k - 1, Voters)]

RECURSIVE mathMax(_)
\* Math.max(...counts), counts not empty
mathMax(counts) ==
    IF Len(counts) = 1 THEN counts[1]
    ELSE LET m == mathMax(Tail(counts))
         IN IF counts[1] >= m THEN counts[1] ELSE m

\* mutant: the last index holding x (lastIndexOf)
indexOfLast(counts, x) ==
    IF \E k \in 1 .. Len(counts) : counts[k] = x
    THEN (CHOOSE k \in 1 .. Len(counts) :
            counts[k] = x /\ \A j \in k + 1 .. Len(counts) : counts[j] # x) - 1
    ELSE -1

\* Array.prototype.indexOf, 0-based, -1 when absent
indexOf(counts, x) ==
    IF \E k \in 1 .. Len(counts) : counts[k] = x
    THEN (CHOOSE k \in 1 .. Len(counts) :
            counts[k] = x /\ \A j \in 1 .. k - 1 : counts[j] # x) - 1
    ELSE -1

\* the comparator (a, b) => b.votes - a.votes
compareVotes(a, b) == b.votes - a.votes

RECURSIVE insertSortedTiesFirst(_, _)
\* mutant: an unstable sort, which puts an entry before the entries it ties with
insertSortedTiesFirst(e, s) ==
    IF s = <<>> THEN <<e>>
    ELSE IF compareVotes(Head(s), e) < 0
         THEN <<Head(s)>> \o insertSortedTiesFirst(e, Tail(s))
         ELSE <<e>> \o s

RECURSIVE insertSorted(_, _)
\* Array.prototype.sort is stable: an entry goes behind every entry the comparator
\* does not put after it
insertSorted(e, s) ==
    IF s = <<>> THEN <<e>>
    ELSE IF compareVotes(Head(s), e) <= 0
         THEN <<Head(s)>> \o insertSorted(e, Tail(s))
         ELSE <<e>> \o s

RECURSIVE sortEntries(_)
\* entries.sort((a, b) => b.votes - a.votes)
sortEntries(s) ==
    IF s = <<>> THEN <<>>
    ELSE insertSorted(s[Len(s)], sortEntries(SubSeq(s, 1, Len(s) - 1)))

\* mutant: an option without votes is entered with one vote (counts[i] || 1)
sortedResultsNeverZero(pollOptions, counts) ==
    sortEntries([k \in 1 .. Len(pollOptions) |->
                    [title |-> pollOptions[k],
                     votes |-> IF counts[k] = 0 THEN 1 ELSE counts[k]]])

\* mutant: the entries are left in option order
sortedResultsUnsorted(pollOptions, counts) ==
    [k \in 1 .. Len(pollOptions) |-> [title |-> pollOptions[k], votes |-> counts[k]]]

\* pollOptions.map((opt, i) => ({ title: opt, votes: counts[i] || 0 })).sort(...)
sortedResults(pollOptions, counts) ==
    sortEntries([k \in 1 .. Len(pollOptions) |->
                    [title |-> pollOptions[k], votes |-> counts[k]]])

-----------------------------------------------------------------------------
(* Tables *)

\* mutant: the unique index on polls.messageId is missing
MessageIdNotChecked(rows, row) == TRUE

\* polls.messageId is declared unique(): an insert fails when a row already
\* holds the same messageId
MessageIdUnique(rows, row) ==
    \A i \in DOMAIN rows : rows[i].messageId # row.messageId

\* mutant: the polls of the guild are found whether active or not
pollIdsActiveOrNot(rows, guildId) ==
    {i \in DOMAIN rows : rows[i].guildId = guildId}

\* mutant: only the active polls of the final round are found
activePhase2PollIds(rows, guildId) ==
    {i \in DOMAIN rows : rows[i].guildId = guildId /\ rows[i].active /\ rows[i].phase = 2}

\* the ids of the rows of polls that satisfy a where clause, in rowid order
activePollIds(rows, guildId) ==
    {i \in DOMAIN rows : rows[i].guildId = guildId /\ rows[i].active}

activePollIdsOfMonth(rows, guildId, month) ==
    {i \in DOMAIN rows :
        rows[i].guildId = guildId /\ rows[i].month = month /\ rows[i].active}

\* mutant: the phase-1 polls are found whether closed or not
phase1IdsOpenOrClosed(rows, guildId) ==
    {i \in DOMAIN rows : rows[i].guildId = guildId /\ rows[i].phase = 1}

closedPhase1Ids(rows, guildId) ==
    {i \in DOMAIN rows :
        rows[i].guildId = guildId /\ rows[i].phase = 1 /\ ~rows[i].active}

\* mutant: the nominations of every month of the guild are found
nominationsOfAnyMonth(rows, guildId, month) ==
    SelectSeq(rows, LAMBDA n : n.guildId = guildId)

\* mutant: the rows are returned newest first
nominationsNewestFirst(rows, guildId, month) ==
    LET found == SelectSeq(rows, LAMBDA n : n.guildId = guildId /\ n.month = month)
    IN  [k \in 1 .. Len(found) |-> found[Len(found) + 1 - k]]

\* the rows of book_nominations of one guild and month, in rowid order
nominationsOf(rows, guildId, month) ==
    SelectSeq(rows, LAMBDA n : n.guildId = guildId /\ n.month = month)

\* select ... from poll_votes where pollId = ? and oderId = ?
existingVotesOf(votes, pollId, oderId) ==
    {r \in BagToSet(votes) : r.pollId = pollId /\ r.oderId = oderId}

voteRow(pollId, optionIndex, oderId) ==
    [pollId |-> pollId, optionIndex |-> optionIndex, oderId |-> oderId]

\* insert into poll_votes
insertVote(votes, pollId, optionIndex, oderId) ==
    votes (+) SetToBag({voteRow(pollId, optionIndex, oderId)})

\* mutant: the delete's where clause lacks the optionIndex condition
deleteVoteAnyOption(votes, pollId, optionIndex, oderId) ==
    [r \in {x \in BagToSet(votes) : ~(x.pollId = pollId /\ x.oderId = oderId)}
        |-> votes[r]]

\* delete from poll_votes where pollId = ? and oderId = ? and optionIndex = ?
deleteVote(votes, pollId, optionIndex, oderId) ==
    [r \in BagToSet(votes) \ {voteRow(pollId, optionIndex, oderId)} |-> votes[r]]

\* delete from poll_votes where pollId = ? and oderId = ?
deleteVotesOf(votes, pollId, oderId) ==
    [r \in BagToSet(votes) \ existingVotesOf(votes, pollId, oderId) |-> votes[r]]

-----------------------------------------------------------------------------
(* Answers *)

Reply(op, status) ==
    [op |-> op, status |-> status, pollId |-> NULL, counts |-> <<>>,
     ranking |-> <<>>, winner |-> <<>>, nominations |-> <<>>]

tables == <<bookNominations, polls, pollVotes, pollWinners>>

\* the first row a scan of polls returns: the table is read in rowid order
firstId(ids) == CHOOSE i \in ids : \A j \in ids : i <= j

\* mutant: the order of the select is ascending
lastIdAscending(ids) == CHOOSE i \in ids : \A j \in ids : i <= j

\* orderBy(desc(polls.id)).limit(1)
lastId(ids) == CHOOSE i \in ids : \A j \in ids : i >= j

-----------------------------------------------------------------------------
(* The handlers, each run as one step *)

\* /nominatebook; month is getCurrentMonth() at the time of the call
nominateBook(guildId, title, author, month) ==
    /\ inflight = <<>>
    /\ IF title = <<>> \/ author = <<>>
       THEN /\ response' = Reply("nominateBook", "ValidationError")
            /\ UNCHANGED tables
       ELSE /\ Len(bookNominations) < MaxNominations
            /\ bookNominations' = Append(bookNominations,
                  [guildId |-> guildId,
                   bookTitle |-> trim(bookEntry(title, author)),
                   month |-> month])
            /\ response' = Reply("nominateBook", "ok")
            /\ UNCHANGED <<polls, pollVotes, pollWinners>>
    /\ UNCHANGED inflight
    /\ UNCHANGED cacheVars

\* /clearnominations
\* mutant: the polls of the month read their options from the nominations
clearNominationsWithOptions(guildId, month) ==
    /\ inflight = <<>>
    /\ bookNominations' =
          SelectSeq(bookNominations,
                    LAMBDA n : ~(n.guildId = guildId /\ n.month = month))
    /\ polls' = [p \in DOMAIN polls |->
                    IF polls[p].guildId = guildId /\ polls[p].month = month
                    THEN [polls[p] EXCEPT !.options = <<>>]
                    ELSE polls[p]]
    /\ response' = Reply("clearNominations", "ok")
    /\ UNCHANGED <<pollVotes, pollWinners, inflight>>
    /\ UNCHANGED cacheVars

\* mutant: the month is not part of the delete's condition
clearNominationsOfGuild(guildId, month) ==
    /\ inflight = <<>>
    /\ bookNominations' =
          SelectSeq(bookNominations, LAMBDA n : n.guildId # guildId)
    /\ response' = Reply("clearNominations", "ok")
    /\ UNCHANGED <<polls, pollVotes, pollWinners, inflight>>
    /\ UNCHANGED cacheVars

clearNominations(guildId, month) ==
    /\ inflight = <<>>
    /\ bookNominations' =
          SelectSeq(bookNominations,
                    LAMBDA n : ~(n.guildId = guildId /\ n.month = month))
    /\ response' = Reply("clearNominations", "ok")
    /\ UNCHANGED <<polls, pollVotes, pollWinners, inflight>>
    /\ UNCHANGED cacheVars

\* the row /startpoll inserts
phase1Row(guildId, month, nominations) ==
    [guildId |-> guildId, messageId |-> PENDING,
     options |-> [k \in 1 .. Len(nominations) |-> nominations[k].bookTitle],
     active |-> TRUE, phase |-> 1, multiVote |-> TRUE,
     parentPollId |-> NULL, month |-> month]

\* /startpoll
startPoll(guildId, month) ==
    /\ inflight = <<>>
    /\ Len(polls) < MaxPolls
    /\ LET nominations == nominationsOf(bookNominations, guildId, month)
           row == phase1Row(guildId, month, nominations)
       IN  IF activePollIdsOfMonth(polls, guildId, month) # {}
           THEN /\ response' = Reply("startPoll", "Conflict")
                /\ UNCHANGED tables
           ELSE IF Len(nominations) < 2
           THEN /\ response' = Reply("startPoll", "Precondition")
                /\ UNCHANGED tables
           ELSE IF ~MessageIdUnique(polls, row)
           THEN /\ response' = Reply("startPoll", "PersistenceError")
                /\ UNCHANGED tables
           ELSE /\ polls' = Append(polls, row)
                /\ response' =
                      [Reply("startPoll", "ok") EXCEPT
                          !.pollId = Len(polls) + 1,
                          !.counts = [k \in 1 .. Len(row.options) |-> 0]]
                /\ UNCHANGED <<bookNominations, pollVotes, pollWinners>>
    /\ UNCHANGED inflight
    /\ UNCHANGED cacheVars

\* mutant: every poll is treated as a single-vote poll
votesAfterVoteAlwaysSingle(votes, multiVote, existingVotes, pollId, optionIndex, oderId) ==
    LET removed == IF existingVotes # {}
                   THEN deleteVotesOf(votes, pollId, oderId)
                   ELSE votes
    IN  IF \E v \in existingVotes : v.optionIndex = optionIndex
        THEN removed
        ELSE insertVote(removed, pollId, optionIndex, oderId)

\* mutant: the single-vote branch does not remove the vote on another option
votesAfterVoteKeepsOld(votes, multiVote, existingVotes, pollId, optionIndex, oderId) ==
    IF \E v \in existingVotes : v.optionIndex = optionIndex
    THEN deleteVote(votes, pollId, optionIndex, oderId)
    ELSE insertVote(votes, pollId, optionIndex, oderId)

\* mutant: the single-vote branch replaces the vote also when the same option
\* is voted again
votesAfterVoteNoToggle(votes, multiVote, existingVotes, pollId, optionIndex, oderId) ==
    IF multiVote
    THEN IF \E v \in existingVotes : v.optionIndex = optionIndex
         THEN deleteVote(votes, pollId, optionIndex, oderId)
         ELSE insertVote(votes, pollId, optionIndex, oderId)
    ELSE insertVote(deleteVotesOf(votes, pollId, oderId), pollId, optionIndex, oderId)

\* the writes of the vote button: the toggle of a multi-vote poll, the
\* replacement of a single-vote poll
votesAfterVote(votes, multiVote, existingVotes, pollId, optionIndex, oderId) ==
    LET alreadyVotedForThis ==
            \E v \in existingVotes : v.optionIndex = optionIndex
    IN  IF multiVote
        THEN IF alreadyVotedForThis
             THEN deleteVote(votes, pollId, optionIndex, oderId)
             ELSE insertVote(votes, pollId, optionIndex, oderId)
        ELSE LET removed == IF existingVotes # {}
                            THEN deleteVotesOf(votes, pollId, oderId)
                            ELSE votes
             IN  IF ~alreadyVotedForThis
                 THEN insertVote(removed, pollId, optionIndex, oderId)
                 ELSE removed

\* mutant: the button does not look at the poll's active flag
pollVoteButtonOnClosed(pollId, optionIndex, oderId) ==
    /\ inflight = <<>>
    /\ IF pollId \notin DOMAIN polls
       THEN /\ response' = Reply("vote", "NotFound")
            /\ UNCHANGED tables
       ELSE LET poll == polls[pollId]
                after == votesAfterVote(pollVotes, poll.multiVote,
                            existingVotesOf(pollVotes, pollId, oderId),
                            pollId, optionIndex, oderId)
            IN  /\ pollVotes' = after
                /\ response' =
                      [Reply("vote", "ok") EXCEPT
                          !.pollId = pollId,
                          !.counts = voteCountArray(after, pollId, poll.options)]
                /\ UNCHANGED <<bookNominations, polls, pollWinners>>
    /\ UNCHANGED inflight
    /\ UNCHANGED cacheVars

\* the poll_vote:<pollId>:<optionIndex> button
pollVoteButton(pollId, optionIndex, oderId) ==
    /\ inflight = <<>>
    /\ IF pollId \notin DOMAIN polls
       THEN /\ response' = Reply("vote", "NotFound")
            /\ UNCHANGED tables
       ELSE IF ~polls[pollId].active
       THEN /\ response' = Reply("vote", "Conflict")
            /\ UNCHANGED tables
       ELSE LET poll == polls[pollId]
                after == votesAfterVote(pollVotes, poll.multiVote,
                            existingVotesOf(pollVotes, pollId, oderId),
                            pollId, optionIndex, oderId)
            IN  /\ pollVotes' = after
                /\ response' =
                      [Reply("vote", "ok") EXCEPT
                          !.pollId = pollId,
                          !.counts = voteCountArray(after, pollId, poll.options)]
                /\ UNCHANGED <<bookNominations, polls, pollWinners>>
    /\ UNCHANGED inflight
    /\ UNCHANGED cacheVars

\* the row /closepoll archives for a phase-2 poll
winnerRow(guildId, poll, counts) ==
    LET maxVotes == mathMax(counts)
        winnerIndex == indexOf(counts, maxVotes)
    IN  [guildId |-> guildId, month |-> poll.month,
         bookTitle |-> poll.options[winnerIndex + 1], voteCount |-> maxVotes]

\* mutant: the winner is archived whatever the phase of the closed poll
closePollArchivesAnyPhase(guildId) ==
    /\ inflight = <<>>
    /\ IF activePollIds(polls, guildId) = {}
       THEN /\ response' = Reply("closePoll", "NotFound")
            /\ UNCHANGED tables
       ELSE LET id == firstId(activePollIds(polls, guildId))
                poll == polls[id]
                counts == voteCountArray(pollVotes, id, poll.options)
            IN  /\ polls' = [polls EXCEPT ![id].active = FALSE]
                /\ pollWinners' = Append(pollWinners, winnerRow(guildId, poll, counts))
                /\ response' =
                      [Reply("closePoll", "ok") EXCEPT
                          !.pollId = id,
                          !.counts = counts,
                          !.ranking = sortedResults(poll.options, counts)]
                /\ UNCHANGED <<bookNominations, pollVotes>>
    /\ UNCHANGED inflight
    /\ UNCHANGED cacheVars

\* mutant: the closed poll's row is deleted
closePollDeletesRow(guildId) ==
    /\ inflight = <<>>
    /\ IF activePollIds(polls, guildId) = {}
       THEN /\ response' = Reply("closePoll", "NotFound")
            /\ UNCHANGED tables
       ELSE LET id == firstId(activePollIds(polls, guildId))
            IN  /\ polls' = SubSeq(polls, 1, id - 1) \o SubSeq(polls, id + 1, Len(polls))
                /\ response' = [Reply("closePoll", "ok") EXCEPT !.pollId = id]
                /\ UNCHANGED <<bookNominations, pollVotes, pollWinners>>
    /\ UNCHANGED inflight
    /\ UNCHANGED cacheVars

\* mutant: the update closes every active poll of the guild
closePollEveryActive(guildId) ==
    /\ inflight = <<>>
    /\ IF activePollIds(polls, guildId) = {}
       THEN /\ response' = Reply("closePoll", "NotFound")
            /\ UNCHANGED tables
       ELSE LET id == firstId(activePollIds(polls, guildId))
            IN  /\ polls' = [p \in DOMAIN polls |->
                                IF p \in activePollIds(polls, guildId)
                                THEN [polls[p] EXCEPT !.active = FALSE]
                                ELSE polls[p]]
                /\ response' = [Reply("closePoll", "ok") EXCEPT !.pollId = id]
                /\ UNCHANGED <<bookNominations, pollVotes, pollWinners>>
    /\ UNCHANGED inflight
    /\ UNCHANGED cacheVars

\* mutant: a final poll without votes is closed without a winner
closePollNeedsVotes(guildId) ==
    /\ inflight = <<>>
    /\ IF activePollIds(polls, guildId) = {}
       THEN /\ response' = Reply("closePoll", "NotFound")
            /\ UNCHANGED tables
       ELSE LET id == firstId(activePollIds(polls, guildId))
                poll == polls[id]
                counts == voteCountArray(pollVotes, id, poll.options)
                ranking == sortedResults(poll.options, counts)
            IN  /\ polls' = [polls EXCEPT ![id].active = FALSE]
                /\ pollWinners' =
                      IF poll.phase = 2 /\ mathMax(counts) > 0
                      THEN Append(pollWinners, winnerRow(guildId, poll, counts))
                      ELSE pollWinners
                /\ response' =
                      [Reply("closePoll", "ok") EXCEPT
                          !.pollId = id,
                          !.counts = counts,
                          !.ranking = ranking,
                          !.winner = IF poll.phase = 2 /\ Len(ranking) > 0
                                     THEN ranking[1].title ELSE <<>>]
                /\ UNCHANGED <<bookNominations, pollVotes>>
    /\ UNCHANGED inflight
    /\ UNCHANGED cacheVars

\* /closepoll
closePoll(guildId) ==
    /\ inflight = <<>>
    /\ IF activePollIds(polls, guildId) = {}
       THEN /\ response' = Reply("closePoll", "NotFound")
            /\ UNCHANGED tables
       ELSE LET id == firstId(activePollIds(polls, guildId))
                poll == polls[id]
                counts == voteCountArray(pollVotes, id, poll.options)
                ranking == sortedResults(poll.options, counts)
            IN  /\ polls' = [polls EXCEPT ![id].active = FALSE]
                /\ pollWinners' =
                      IF poll.phase = 2
                      THEN Append(pollWinners, winnerRow(guildId, poll, counts))
                      ELSE pollWinners
                /\ response' =
                      [Reply("closePoll", "ok") EXCEPT
                          !.pollId = id,
                          !.counts = counts,
                          !.ranking = ranking,
                          !.winner = IF poll.phase = 2 /\ Len(ranking) > 0
                                     THEN ranking[1].title ELSE <<>>]
                /\ UNCHANGED <<bookNominations, pollVotes>>
    /\ UNCHANGED inflight
    /\ UNCHANGED cacheVars

\* mutant: the final poll is inserted without its parent
phase2RowNoParent(guildId, phase1Id, month, sortedOptions) ==
    [guildId |-> guildId, messageId |-> PENDING,
     options |-> [k \in 1 .. Len(sortedOptions) |-> sortedOptions[k].title],
     active |-> TRUE, phase |-> 2, multiVote |-> FALSE,
     parentPollId |-> NULL, month |-> month]

\* the row /startfinalpoll inserts
phase2Row(guildId, phase1Id, month, sortedOptions) ==
    [guildId |-> guildId, messageId |-> PENDING,
     options |-> [k \in 1 .. Len(sortedOptions) |-> sortedOptions[k].title],
     active |-> TRUE, phase |-> 2, multiVote |-> FALSE,
     parentPollId |-> phase1Id, month |-> month]

\* /startfinalpoll
startFinalPoll(guildId) ==
    /\ inflight = <<>>
    /\ Len(polls) < MaxPolls
    /\ IF closedPhase1Ids(polls, guildId) = {}
       THEN /\ response' = Reply("startFinalPoll", "Precondition")
            /\ UNCHANGED tables
       ELSE IF activePollIds(polls, guildId) # {}
       THEN /\ response' = Reply("startFinalPoll", "Conflict")
            /\ UNCHANGED tables
       ELSE LET phase1Id == lastId(closedPhase1Ids(polls, guildId))
                phase1Poll == polls[phase1Id]
                counts == voteCountArray(pollVotes, phase1Id, phase1Poll.options)
                sortedOptions ==
                    slice(sortedResults(phase1Poll.options, counts), 3)
                booksWithVotes ==
                    SelectSeq(sortedOptions, LAMBDA opt : opt.votes > 0)
                row == phase2Row(guildId, phase1Id, phase1Poll.month, sortedOptions)
            IN  IF Len(phase1Poll.options) < 3 \/ Len(booksWithVotes) < 3
                THEN /\ response' = Reply("startFinalPoll", "Precondition")
                     /\ UNCHANGED tables
                ELSE IF ~MessageIdUnique(polls, row)
                THEN /\ response' = Reply("startFinalPoll", "PersistenceError")
                     /\ UNCHANGED tables
                ELSE /\ polls' = Append(polls, row)
                     /\ response' =
                           [Reply("startFinalPoll", "ok") EXCEPT
                               !.pollId = Len(polls) + 1,
                               !.counts = [k \in 1 .. Len(row.options) |-> 0]]
                     /\ UNCHANGED <<bookNominations, pollVotes, pollWinners>>
    /\ UNCHANGED inflight
    /\ UNCHANGED cacheVars

-----------------------------------------------------------------------------
(* The sequential specification: requests one after the other, from an *)
(* empty database                                                       *)

Init ==
    /\ bookNominations = <<>>
    /\ polls = <<>>
    /\ pollVotes = EmptyBag
    /\ pollWinners = <<>>
    /\ response = Reply("none", "ok")
    /\ inflight = <<>>
    /\ cacheCreated

Next ==
    \/ \E g \in Guilds, m \in Months : nominateBook(g, <<"D">>, <<"H">>, m)
    \/ \E g \in Guilds, m \in Months : clearNominations(g, m)
    \/ \E g \in Guilds, m \in Months : startPoll(g, m)
    \/ \E p \in PollIds, i \in {0, 1} : pollVoteButton(p, i, "u1")
    \/ \E g \in Guilds : closePoll(g)
    \/ \E g \in Guilds : startFinalPoll(g)

Spec == Init /\ [][Next]_vars

-----------------------------------------------------------------------------
(* The final round.  From an empty database no second poll can be inserted  *)
(* while the first still holds the placeholder messageId, so the handlers   *)
(* of the final round are run on a database whose closed phase-1 poll holds *)
(* the id of its message instead (the placeholder is written "to be         *)
(* updated").  The phase-1 poll has three options and any votes of three    *)
(* voters, or four options and any votes of two voters.                     *)

seedOptions(n) ==
    [k \in 1 .. n |->
        bookEntry(<< <<"D">>, <<" ", "N">>, <<"E", " ">>, <<"F">> >>[k], <<"H">>)]

seedPoll(n) ==
    [phase1Row("g1", "2026-01", [k \in 1 .. n |-> [bookTitle |-> seedOptions(n)[k]]])
        EXCEPT !.messageId = "1001", !.active = FALSE]

seedVoteRows(n, V) ==
    {voteRow(1, i, u) : i \in 0 .. n - 1, u \in V}

InitFinal ==
    /\ bookNominations = <<>>
    /\ \E n \in {3, 4} :
          /\ polls = <<seedPoll(n)>>
          /\ \E S \in SUBSET seedVoteRows(n, IF n = 3 THEN Voters ELSE {"u1", "u2"}) :
                pollVotes = SetToBag(S)
    /\ pollWinners = <<>>
    /\ response = Reply("none", "ok")
    /\ inflight = <<>>
    /\ cacheCreated

NextFinal ==
    \/ startFinalPoll("g1")
    \/ \E p \in {1, 2}, i \in OptionIndexes, u \in {"u1", "u2"} :
          pollVoteButton(p, i, u)
    \/ closePoll("g1")

SpecFinal == InitFinal /\ [][NextFinal]_vars

-----------------------------------------------------------------------------
(* The first round of one community and month, from an empty database, with *)
(* two voters                                                               *)

NextVote ==
    \/ \E t \in {<<"D">>, <<" ", "N">>} : nominateBook("g1", t, <<"H">>, "2026-01")
    \/ startPoll("g1", "2026-01")
    \/ \E i \in OptionIndexes, u \in {"u1", "u2"} : pollVoteButton(1, i, u)
    \/ closePoll("g1")

SpecVote == Init /\ [][NextVote]_vars

-----------------------------------------------------------------------------
(* The ranking on its own: the sort of /closepoll and the top three of      *)
(* /startfinalpoll, run on every vector of counts of three or four options  *)

InitRank ==
    /\ bookNominations = <<>>
    /\ polls = <<>>
    /\ pollVotes = EmptyBag
    /\ pollWinners = <<>>
    /\ inflight = <<>>
    /\ \E n \in {3, 4} : \E c \in [1 .. n -> 0 .. MaxCount] :
          response = [Reply("rank", "input") EXCEPT !.counts = c]
    /\ cacheCreated

\* /closepoll's sortedResults
rankResults ==
    /\ response.status = "input"
    /\ response' = [response EXCEPT
          !.status = "ranked",
          !.ranking = sortedResults(seedOptions(Len(response.counts)), response.counts)]
    /\ UNCHANGED <<tables, inflight>>
    /\ UNCHANGED cacheVars

\* /startfinalpoll's sortedOptions
rankTop3 ==
    /\ response.status = "input"
    /\ response' = [response EXCEPT
          !.status = "top3",
          !.ranking = slice(sortedResults(seedOptions(Len(response.counts)),
                                          response.counts), 3)]
    /\ UNCHANGED <<tables, inflight>>
    /\ UNCHANGED cacheVars

NextRank == rankResults \/ rankTop3

SpecRank == InitRank /\ [][NextRank]_vars

-----------------------------------------------------------------------------
(* The vote button, one db.execute at a time.  Every db.execute is its own  *)
(* statement on the shared connection (no transaction is opened), so the    *)
(* statements of requests in flight interleave freely.                      *)

removeAt(s, k) == SubSeq(s, 1, k - 1) \o SubSeq(s, k + 1, Len(s))

\* the select of the poll row; a request that goes on is put in flight
voteReadPoll(pollId, optionIndex, oderId) ==
    /\ Len(inflight) < MaxRequests
    /\ IF pollId \notin DOMAIN polls
       THEN /\ response' = Reply("vote", "NotFound")
            /\ UNCHANGED inflight
       ELSE IF ~polls[pollId].active
       THEN /\ response' = Reply("vote", "Conflict")
            /\ UNCHANGED inflight
       ELSE /\ inflight' = Append(inflight,
                  [op |-> "vote", pc |-> "existing", pollId |-> pollId,
                   optionIndex |-> optionIndex, oderId |-> oderId,
                   multiVote |-> polls[pollId].multiVote,
                   options |-> polls[pollId].options,
                   existing |-> {}])
            /\ UNCHANGED response
    /\ UNCHANGED tables
    /\ UNCHANGED cacheVars

\* the select of the voter's rows; what follows is decided on its result
voteReadExisting(k) ==
    /\ k \in DOMAIN inflight
    /\ inflight[k].op = "vote" /\ inflight[k].pc = "existing"
    /\ LET r == inflight[k]
           existingVotes == existingVotesOf(pollVotes, r.pollId, r.oderId)
           alreadyVotedForThis ==
               \E v \in existingVotes : v.optionIndex = r.optionIndex
           pc == IF r.multiVote
                 THEN IF alreadyVotedForThis THEN "delete" ELSE "insert"
                 ELSE IF existingVotes # {} THEN "delete" ELSE "insert"
       IN  inflight' = [inflight EXCEPT
               ![k].existing = {v.optionIndex : v \in existingVotes},
               ![k].pc = pc]
    /\ UNCHANGED <<tables, response>>
    /\ UNCHANGED cacheVars

\* the delete: of the voted option on a multi-vote poll, of all the voter's
\* rows on a single-vote poll
voteDelete(k) ==
    /\ k \in DOMAIN inflight
    /\ inflight[k].op = "vote" /\ inflight[k].pc = "delete"
    /\ LET r == inflight[k]
       IN  /\ pollVotes' =
                 IF r.multiVote
                 THEN deleteVote(pollVotes, r.pollId, r.optionIndex, r.oderId)
                 ELSE deleteVotesOf(pollVotes, r.pollId, r.oderId)
           /\ inflight' = [inflight EXCEPT ![k].pc =
                 IF ~r.multiVote /\ r.optionIndex \notin r.existing
                 THEN "insert" ELSE "counts"]
    /\ UNCHANGED <<bookNominations, polls, pollWinners, response>>
    /\ UNCHANGED cacheVars

\* the insert of the new row
voteInsert(k) ==
    /\ k \in DOMAIN inflight
    /\ inflight[k].op = "vote" /\ inflight[k].pc = "insert"
    /\ LET r == inflight[k]
       IN  pollVotes' = insertVote(pollVotes, r.pollId, r.optionIndex, r.oderId)
    /\ inflight' = [inflight EXCEPT ![k].pc = "counts"]
    /\ UNCHANGED <<bookNominations, polls, pollWinners, response>>
    /\ UNCHANGED cacheVars

\* the select of the counts, and the answer
voteCounts(k) ==
    /\ k \in DOMAIN inflight
    /\ inflight[k].op = "vote" /\ inflight[k].pc = "counts"
    /\ LET r == inflight[k]
       IN  response' = [Reply("vote", "ok") EXCEPT
               !.pollId = r.pollId,
               !.counts = voteCountArray(pollVotes, r.pollId, r.options)]
    /\ inflight' = removeAt(inflight, k)
    /\ UNCHANGED tables
    /\ UNCHANGED cacheVars

(* Concurrent votes of one voter on the first-round poll, from an empty *)
(* database                                                              *)
NextConc ==
    \/ \E t \in {<<"D">>, <<" ", "N">>} : nominateBook("g1", t, <<"H">>, "2026-01")
    \/ startPoll("g1", "2026-01")
    \/ \E i \in {0, 1} : voteReadPoll(1, i, "u1")
    \/ \E k \in 1 .. MaxRequests : voteReadExisting(k)
    \/ \E k \in 1 .. MaxRequests : voteDelete(k)
    \/ \E k \in 1 .. MaxRequests : voteInsert(k)
    \/ \E k \in 1 .. MaxRequests : voteCounts(k)
    \/ closePoll("g1")

SpecConc == Init /\ [][NextConc]_vars

(* Concurrent votes on the final-round poll; the phase-1 poll is the one of *)
(* InitFinal with three options, each voted by u1                           *)
InitFinalConc ==
    /\ bookNominations = <<>>
    /\ polls = <<seedPoll(3)>>
    /\ pollVotes = SetToBag(seedVoteRows(3, {"u1"}))
    /\ pollWinners = <<>>
    /\ response = Reply("none", "ok")
    /\ inflight = <<>>
    /\ cacheCreated

NextFinalConc ==
    \/ startFinalPoll("g1")
    \/ \E i \in {0, 1}, u \in {"u1", "u2"} : voteReadPoll(2, i, u)
    \/ \E k \in 1 .. MaxRequests : voteReadExisting(k)
    \/ \E k \in 1 .. MaxRequests : voteDelete(k)
    \/ \E k \in 1 .. MaxRequests : voteInsert(k)
    \/ \E k \in 1 .. MaxRequests : voteCounts(k)
    \/ closePoll("g1")

SpecFinalConc == InitFinalConc /\ [][NextFinalConc]_vars

-----------------------------------------------------------------------------
(* The start of the first round: nominations of two titles in every         *)
(* community and month, from an empty database                              *)

NextStart ==
    \/ \E g \in Guilds, m \in Months, t \in {<<"D">>, <<" ", "N">>} :
          nominateBook(g, t, <<"H">>, m)
    \/ \E g \in Guilds, m \in Months : startPoll(g, m)
    \/ \E g \in Guilds : closePoll(g)

SpecStart == Init /\ [][NextStart]_vars

-----------------------------------------------------------------------------
(* The promotion to the final round.  The database holds a closed phase-1   *)
(* poll as in InitFinal, of two options with any votes of three voters or   *)
(* of three options with any votes of two voters; a further first round of  *)
(* the next month can be nominated, started, voted and closed.              *)

InitPromote ==
    /\ bookNominations = <<>>
    /\ \E n \in {2, 3} :
          /\ polls = <<seedPoll(n)>>
          /\ \E S \in SUBSET seedVoteRows(n, IF n = 2 THEN Voters ELSE {"u1", "u2"}) :
                pollVotes = SetToBag(S)
    /\ pollWinners = <<>>
    /\ response = Reply("none", "ok")
    /\ inflight = <<>>
    /\ cacheCreated

NextPromote ==
    \/ \E t \in {<<"D">>, <<" ", "N">>} : nominateBook("g1", t, <<"H">>, "2026-02")
    \/ startPoll("g1", "2026-02")
    \/ pollVoteButton(2, 0, "u1")
    \/ closePoll("g1")
    \/ startFinalPoll("g1")

SpecPromote == InitPromote /\ [][NextPromote]_vars

-----------------------------------------------------------------------------
(* /closepoll and /pollstatus, one db.execute at a time *)

\* the select of the active polls of the guild; activePolls[0] is put in flight
closeReadActive(guildId) ==
    /\ Len(inflight) < MaxRequests
    /\ IF activePollIds(polls, guildId) = {}
       THEN /\ response' = Reply("closePoll", "NotFound")
            /\ UNCHANGED inflight
       ELSE LET id == firstId(activePollIds(polls, guildId))
            IN  /\ inflight' = Append(inflight,
                      [op |-> "close", pc |-> "counts", pollId |-> id,
                       guildId |-> guildId, options |-> polls[id].options,
                       phase |-> polls[id].phase, month |-> polls[id].month,
                       counts |-> <<>>])
                /\ UNCHANGED response
    /\ UNCHANGED tables
    /\ UNCHANGED cacheVars

\* the select of the vote counts
closeReadCounts(k) ==
    /\ k \in DOMAIN inflight
    /\ inflight[k].op = "close" /\ inflight[k].pc = "counts"
    /\ inflight' = [inflight EXCEPT
          ![k].counts = voteCountArray(pollVotes, inflight[k].pollId,
                                       inflight[k].options),
          ![k].pc = "update"]
    /\ UNCHANGED <<tables, response>>
    /\ UNCHANGED cacheVars

\* update polls set active = 0 where id = ?
closeUpdate(k) ==
    /\ k \in DOMAIN inflight
    /\ inflight[k].op = "close" /\ inflight[k].pc = "update"
    /\ polls' = [polls EXCEPT ![inflight[k].pollId].active = FALSE]
    /\ inflight' = [inflight EXCEPT ![k].pc = "archive"]
    /\ UNCHANGED <<bookNominations, pollVotes, pollWinners, response>>
    /\ UNCHANGED cacheVars

\* the insert of the winner of a phase-2 poll, and the answer
closeArchive(k) ==
    /\ k \in DOMAIN inflight
    /\ inflight[k].op = "close" /\ inflight[k].pc = "archive"
    /\ LET r == inflight[k]
           ranking == sortedResults(r.options, r.counts)
       IN  /\ pollWinners' =
                 IF r.phase = 2
                 THEN Append(pollWinners, winnerRow(r.guildId, r, r.counts))
                 ELSE pollWinners
           /\ response' =
                 [Reply("closePoll", "ok") EXCEPT
                     !.pollId = r.pollId,
                     !.counts = r.counts,
                     !.ranking = ranking,
                     !.winner = IF r.phase = 2 /\ Len(ranking) > 0
                                THEN ranking[1].title ELSE <<>>]
    /\ inflight' = removeAt(inflight, k)
    /\ UNCHANGED <<bookNominations, polls, pollVotes>>
    /\ UNCHANGED cacheVars

\* /pollstatus: the select of the active polls of the guild
statusReadActive(guildId) ==
    /\ Len(inflight) < MaxRequests
    /\ IF activePollIds(polls, guildId) = {}
       THEN /\ response' = Reply("pollStatus", "NotFound")
            /\ UNCHANGED inflight
       ELSE LET id == firstId(activePollIds(polls, guildId))
            IN  /\ inflight' = Append(inflight,
                      [op |-> "status", pc |-> "counts", pollId |-> id,
                       options |-> polls[id].options])
                /\ UNCHANGED response
    /\ UNCHANGED tables
    /\ UNCHANGED cacheVars

\* /pollstatus: the select of the vote counts, and the answer
statusReadCounts(k) ==
    /\ k \in DOMAIN inflight
    /\ inflight[k].op = "status" /\ inflight[k].pc = "counts"
    /\ LET r == inflight[k]
       IN  response' = [Reply("pollStatus", "ok") EXCEPT
               !.pollId = r.pollId,
               !.counts = voteCountArray(pollVotes, r.pollId, r.options)]
    /\ inflight' = removeAt(inflight, k)
    /\ UNCHANGED tables
    /\ UNCHANGED cacheVars

(* Votes of one voter, /closepoll and /pollstatus in flight together on the *)
(* first-round poll, from an empty database                                 *)
NextClose ==
    \/ \E t \in {<<"D">>, <<" ", "N">>} : nominateBook("g1", t, <<"H">>, "2026-01")
    \/ startPoll("g1", "2026-01")
    \/ \E i \in {0, 1} : voteReadPoll(1, i, "u1")
    \/ \E k \in 1 .. MaxRequests : voteReadExisting(k)
    \/ \E k \in 1 .. MaxRequests : voteDelete(k)
    \/ \E k \in 1 .. MaxRequests : voteInsert(k)
    \/ \E k \in 1 .. MaxRequests : voteCounts(k)
    \/ closeReadActive("g1")
    \/ \E k \in 1 .. MaxRequests : closeReadCounts(k)
    \/ \E k \in 1 .. MaxRequests : closeUpdate(k)
    \/ \E k \in 1 .. MaxRequests : closeArchive(k)
    \/ statusReadActive("g1")
    \/ \E k \in 1 .. MaxRequests : statusReadCounts(k)

SpecClose == Init /\ [][NextClose]_vars

-----------------------------------------------------------------------------
(* /startpoll and /startfinalpoll, one db.execute at a time *)

\* /startpoll: the select of the active polls of the guild and month
startReadActive(guildId, month) ==
    /\ Len(inflight) < MaxRequests
    /\ IF activePollIdsOfMonth(polls, guildId, month) # {}
       THEN /\ response' = Reply("startPoll", "Conflict")
            /\ UNCHANGED inflight
       ELSE /\ inflight' = Append(inflight,
                  [op |-> "start", pc |-> "nominations", guildId |-> guildId,
                   month |-> month, nominations |-> <<>>])
            /\ UNCHANGED response
    /\ UNCHANGED tables
    /\ UNCHANGED cacheVars

\* /startpoll: the select of the nominations
startReadNominations(k) ==
    /\ k \in DOMAIN inflight
    /\ inflight[k].op = "start" /\ inflight[k].pc = "nominations"
    /\ LET r == inflight[k]
           nominations == nominationsOf(bookNominations, r.guildId, r.month)
       IN  IF Len(nominations) < 2
           THEN /\ response' = Reply("startPoll", "Precondition")
                /\ inflight' = removeAt(inflight, k)
           ELSE /\ inflight' = [inflight EXCEPT
                      ![k].nominations = nominations, ![k].pc = "insert"]
                /\ UNCHANGED response
    /\ UNCHANGED tables
    /\ UNCHANGED cacheVars

\* /startpoll: the insert of the poll, and the answer
startInsert(k) ==
    /\ k \in DOMAIN inflight
    /\ inflight[k].op = "start" /\ inflight[k].pc = "insert"
    /\ Len(polls) < MaxPolls
    /\ LET r == inflight[k]
           row == phase1Row(r.guildId, r.month, r.nominations)
       IN  IF ~MessageIdUnique(polls, row)
           THEN /\ response' = Reply("startPoll", "PersistenceError")
                /\ UNCHANGED polls
           ELSE /\ polls' = Append(polls, row)
                /\ response' =
                      [Reply("startPoll", "ok") EXCEPT
                          !.pollId = Len(polls) + 1,
                          !.counts = [j \in 1 .. Len(row.options) |-> 0]]
    /\ inflight' = removeAt(inflight, k)
    /\ UNCHANGED <<bookNominations, pollVotes, pollWinners>>
    /\ UNCHANGED cacheVars

\* /startfinalpoll: the select of the most recent closed phase-1 poll
finalReadPhase1(guildId) ==
    /\ Len(inflight) < MaxRequests
    /\ IF closedPhase1Ids(polls, guildId) = {}
       THEN /\ response' = Reply("startFinalPoll", "Precondition")
            /\ UNCHANGED inflight
       ELSE LET phase1Id == lastId(closedPhase1Ids(polls, guildId))
            IN  /\ inflight' = Append(inflight,
                      [op |-> "final", pc |-> "active", guildId |-> guildId,
                       phase1Id |-> phase1Id, options |-> polls[phase1Id].options,
                       month |-> polls[phase1Id].month, sortedOptions |-> <<>>])
                /\ UNCHANGED response
    /\ UNCHANGED tables
    /\ UNCHANGED cacheVars

\* /startfinalpoll: the select of the active polls of the guild
finalReadActive(k) ==
    /\ k \in DOMAIN inflight
    /\ inflight[k].op = "final" /\ inflight[k].pc = "active"
    /\ IF activePollIds(polls, inflight[k].guildId) # {}
       THEN /\ response' = Reply("startFinalPoll", "Conflict")
            /\ inflight' = removeAt(inflight, k)
       ELSE /\ inflight' = [inflight EXCEPT ![k].pc = "counts"]
            /\ UNCHANGED response
    /\ UNCHANGED tables
    /\ UNCHANGED cacheVars

\* /startfinalpoll: the select of the phase-1 vote counts and the top three
finalReadCounts(k) ==
    /\ k \in DOMAIN inflight
    /\ inflight[k].op = "final" /\ inflight[k].pc = "counts"
    /\ LET r == inflight[k]
           counts == voteCountArray(pollVotes, r.phase1Id, r.options)
           sortedOptions == slice(sortedResults(r.options, counts), 3)
           booksWithVotes == SelectSeq(sortedOptions, LAMBDA opt : opt.votes > 0)
       IN  IF Len(r.options) < 3 \/ Len(booksWithVotes) < 3
           THEN /\ response' = Reply("startFinalPoll", "Precondition")
                /\ inflight' = removeAt(inflight, k)
           ELSE /\ inflight' = [inflight EXCEPT
                      ![k].sortedOptions = sortedOptions, ![k].pc = "insert"]
                /\ UNCHANGED response
    /\ UNCHANGED tables
    /\ UNCHANGED cacheVars

\* /startfinalpoll: the insert of the poll, and the answer
finalInsert(k) ==
    /\ k \in DOMAIN inflight
    /\ inflight[k].op = "final" /\ inflight[k].pc = "insert"
    /\ Len(polls) < MaxPolls
    /\ LET r == inflight[k]
           row == phase2Row(r.guildId, r.phase1Id, r.month, r.sortedOptions)
       IN  IF ~MessageIdUnique(polls, row)
           THEN /\ response' = Reply("startFinalPoll", "PersistenceError")
                /\ UNCHANGED polls
           ELSE /\ polls' = Append(polls, row)
                /\ response' =
                      [Reply("startFinalPoll", "ok") EXCEPT
                          !.pollId = Len(polls) + 1,
                          !.counts = [j \in 1 .. Len(row.options) |-> 0]]
    /\ inflight' = removeAt(inflight, k)
    /\ UNCHANGED <<bookNominations, pollVotes, pollWinners>>
    /\ UNCHANGED cacheVars

(* Start requests in flight together: the first round of the next month and *)
(* the final round of the closed phase-1 poll of InitFinalConc               *)
NextStarts ==
    \/ \E t \in {<<"D">>, <<" ", "N">>} : nominateBook("g1", t, <<"H">>, "2026-02")
    \/ startReadActive("g1", "2026-02")
    \/ \E k \in 1 .. MaxRequests : startReadNominations(k)
    \/ \E k \in 1 .. MaxRequests : startInsert(k)
    \/ finalReadPhase1("g1")
    \/ \E k \in 1 .. MaxRequests : finalReadActive(k)
    \/ \E k \in 1 .. MaxRequests : finalReadCounts(k)
    \/ \E k \in 1 .. MaxRequests : finalInsert(k)
    \/ closePoll("g1")

SpecStarts == InitFinalConc /\ [][NextStarts]_vars

-----------------------------------------------------------------------------
(* Storage failures.  db.execute turns a rejected statement into a          *)
(* LibSQLClientError, on which the handler stops: the statement is not run, *)
(* what the handler's earlier statements wrote stays written.               *)

\* a statement of the vote button fails
voteFails(k) ==
    /\ k \in DOMAIN inflight
    /\ inflight[k].op = "vote"
    /\ response' = [Reply("vote", "PersistenceError") EXCEPT
          !.pollId = inflight[k].pollId]
    /\ inflight' = removeAt(inflight, k)
    /\ UNCHANGED tables
    /\ UNCHANGED cacheVars

\* a statement of /closepoll fails; a phase-1 close has no statement left
\* after its update
closeFails(k) ==
    /\ k \in DOMAIN inflight
    /\ inflight[k].op = "close"
    /\ inflight[k].pc = "archive" => inflight[k].phase = 2
    /\ response' = [Reply("closePoll", "PersistenceError") EXCEPT
          !.pollId = inflight[k].pollId]
    /\ inflight' = removeAt(inflight, k)
    /\ UNCHANGED tables
    /\ UNCHANGED cacheVars

(* The final round with storage failures: votes of one voter and /closepoll *)
(* on the final poll of InitFinalConc, any statement of which may fail       *)
NextFail ==
    \/ startFinalPoll("g1")
    \/ \E i \in {0, 1} : voteReadPoll(2, i, "u1")
    \/ \E k \in 1 .. MaxRequests : voteReadExisting(k)
    \/ \E k \in 1 .. MaxRequests : voteDelete(k)
    \/ \E k \in 1 .. MaxRequests : voteInsert(k)
    \/ \E k \in 1 .. MaxRequests : voteCounts(k)
    \/ \E k \in 1 .. MaxRequests : voteFails(k)
    \/ closeReadActive("g1")
    \/ \E k \in 1 .. MaxRequests : closeReadCounts(k)
    \/ \E k \in 1 .. MaxRequests : closeUpdate(k)
    \/ \E k \in 1 .. MaxRequests : closeArchive(k)
    \/ \E k \in 1 .. MaxRequests : closeFails(k)

SpecFail == InitFinalConc /\ [][NextFail]_vars

-----------------------------------------------------------------------------
(* Nominations with every title and author input, whitespace included *)

NextNominate ==
    \/ \E t \in TitleInputs, a \in AuthorInputs :
          nominateBook("g1", t, a, "2026-01")
    \/ clearNominations("g1", "2026-01")

SpecNominate == Init /\ [][NextNominate]_vars

-----------------------------------------------------------------------------
(* Listing the nominations.  nominatedAt is the wall clock read at the      *)
(* insert: two inserts may read the same instant, and the clock may be set  *)
(* back between two inserts.                                                *)

Times == 1 .. 2

\* /nominatebook with the instant the insert reads
nominateBookAt(guildId, title, author, month, at) ==
    /\ inflight = <<>>
    /\ IF title = <<>> \/ author = <<>>
       THEN /\ response' = Reply("nominateBook", "ValidationError")
            /\ UNCHANGED tables
       ELSE /\ Len(bookNominations) < MaxNominations
            /\ bookNominations' = Append(bookNominations,
                  [guildId |-> guildId,
                   bookTitle |-> trim(bookEntry(title, author)),
                   month |-> month,
                   nominatedAt |-> at])
            /\ response' = Reply("nominateBook", "ok")
            /\ UNCHANGED <<polls, pollVotes, pollWinners>>
    /\ UNCHANGED inflight
    /\ UNCHANGED cacheVars

\* the columns /listnominations selects
listedColumns(n) == [bookTitle |-> n.bookTitle, nominatedAt |-> n.nominatedAt]

\* mutant: the rows come back in rowid order
orderByRowid(rows) == {rows}

\* order by nominatedAt: every arrangement of the rows with ascending
\* nominatedAt; the order among equal instants is not defined
orderByNominatedAt(rows) ==
    LET n == Len(rows)
        perms == {f \in [1 .. n -> 1 .. n] : \A i, j \in 1 .. n : i # j => f[i] # f[j]}
    IN  {[k \in 1 .. n |-> rows[f[k]]] : f \in
            {g \in perms : \A i, j \in 1 .. n :
                i < j => rows[g[i]].nominatedAt <= rows[g[j]].nominatedAt}}

listNominations(guildId, month) ==
    /\ inflight = <<>>
    /\ \E found \in orderByNominatedAt(nominationsOf(bookNominations, guildId, month)) :
          response' = [Reply("listNominations", "ok") EXCEPT
             !.nominations = [k \in 1 .. Len(found) |-> listedColumns(found[k])]]
    /\ UNCHANGED <<tables, inflight>>
    /\ UNCHANGED cacheVars

NextList ==
    \/ \E gm \in {<<"g1", "2026-01">>, <<"g1", "2026-02">>, <<"g2", "2026-01">>},
          t \in {<<"D">>, <<"F">>}, at \in Times :
          nominateBookAt(gm[1], t, <<"H">>, gm[2], at)
    \/ \E g \in Guilds, m \in Months : clearNominations(g, m)
    \/ \E g \in Guilds, m \in Months : listNominations(g, m)

SpecList == Init /\ [][NextList]_vars

-----------------------------------------------------------------------------
(* Two finished first rounds of one community: the polls of 2026-01 (three  *)
(* options) and of 2026-02 (four options), both closed, each with any votes *)
(* of u1                                                                    *)

laterOptions ==
    [k \in 1 .. 4 |->
        bookEntry(<< <<"F">>, <<"E", " ">>, <<" ", "N">>, <<"D">> >>[k], <<"H">>)]

laterPoll ==
    [phase1Row("g1", "2026-02", [k \in 1 .. 4 |-> [bookTitle |-> laterOptions[k]]])
        EXCEPT !.messageId = "1002", !.active = FALSE]

InitRounds ==
    /\ bookNominations = <<>>
    /\ polls = <<seedPoll(3), laterPoll>>
    /\ \E S \in SUBSET seedVoteRows(3, {"u1"}),
          T \in SUBSET {voteRow(2, i, "u1") : i \in 0 .. 3} :
          pollVotes = SetToBag(S \cup T)
    /\ pollWinners = <<>>
    /\ response = Reply("none", "ok")
    /\ inflight = <<>>
    /\ cacheCreated

NextRounds ==
    \/ startFinalPoll("g1")
    \/ \E p \in PollIds, i \in OptionIndexes : pollVoteButton(p, i, "u1")
    \/ closePoll("g1")

SpecRounds == InitRounds /\ [][NextRounds]_vars

-----------------------------------------------------------------------------
(* A first round in progress: the database holds the active phase-1 poll of *)
(* g1 for 2026-01.  /startpoll looks for an active poll of the same month   *)
(* only, so a poll of 2026-02 can be started beside it.                     *)

InitActive ==
    /\ bookNominations = <<>>
    /\ polls = <<[seedPoll(3) EXCEPT !.active = TRUE]>>
    /\ pollVotes = EmptyBag
    /\ pollWinners = <<>>
    /\ response = Reply("none", "ok")
    /\ inflight = <<>>
    /\ cacheCreated

NextActive ==
    \/ \E t \in {<<"D">>, <<"F">>} : nominateBook("g1", t, <<"H">>, "2026-02")
    \/ clearNominations("g1", "2026-02")
    \/ startPoll("g1", "2026-02")
    \/ \E p \in PollIds : pollVoteButton(p, 0, "u1")
    \/ \E g \in Guilds : closePoll(g)

SpecActive == InitActive /\ [][NextActive]_vars

-----------------------------------------------------------------------------
(* CacheService: an in-memory store with expiry and an index from tags to   *)
(* keys.  Its methods run to completion one at a time.                      *)

MaxClock == 3

Keys == {"k1", "k2"}
Tags == {"a", "b"}
Values == {"v"}
Ttls == 1 .. 2

\* Map.prototype.set
mapSet(map, key, value) ==
    [k \in DOMAIN map \cup {key} |-> IF k = key THEN value ELSE map[k]]

\* Map.prototype.delete, for every key of a set
mapDelete(map, keys) == [k \in DOMAIN map \ keys |-> map[k]]

\* the clock moves on
tick ==
    /\ now < MaxClock
    /\ now' = now + 1
    /\ UNCHANGED <<tables, response, inflight, store, tagIndex>>

\* the store after get(key): an expired entry is deleted, the index is left
storeAfterGet(key) ==
    IF key \in DOMAIN store /\ store[key].expiresAt < now
    THEN mapDelete(store, {key})
    ELSE store

\* get(key) answers the value of an entry that has not expired
cacheHit(key) == key \in DOMAIN store /\ ~(store[key].expiresAt < now)

get(key) ==
    /\ store' = storeAfterGet(key)
    /\ response' = Reply("get", IF cacheHit(key) THEN "ok" ELSE "null")
    /\ UNCHANGED <<tables, inflight, tagIndex, now>>

\* the index after set: the key is added to the set of each of its tags
tagIndexAfterSet(key, tags) ==
    [t \in DOMAIN tagIndex \cup tags |->
        IF t \in tags
        THEN (IF t \in DOMAIN tagIndex THEN tagIndex[t] ELSE {}) \cup {key}
        ELSE tagIndex[t]]

set(key, value, ttl, tags) ==
    /\ store' = mapSet(store, key,
                       [value |-> value, expiresAt |-> now + ttl,
                        tags |-> tags, lastUpdatedAt |-> now])
    /\ tagIndex' = tagIndexAfterSet(key, tags)
    /\ UNCHANGED <<tables, response, inflight, now>>

deleteKey(key) ==
    /\ tagIndex' =
          IF key \in DOMAIN store
          THEN [t \in DOMAIN tagIndex |->
                   IF t \in store[key].tags THEN tagIndex[t] \ {key} ELSE tagIndex[t]]
          ELSE tagIndex
    /\ store' = mapDelete(store, {key})
    /\ UNCHANGED <<tables, response, inflight, now>>

\* the keys the index holds for the tags
indexedKeys(tags) == UNION {tagIndex[t] : t \in tags \cap DOMAIN tagIndex}

invalidateTags(tags) ==
    /\ store' = mapDelete(store, indexedKeys(tags))
    /\ tagIndex' = mapDelete(tagIndex, tags)
    /\ UNCHANGED <<tables, response, inflight, now>>

clear ==
    /\ store' = emptyMap
    /\ tagIndex' = emptyMap
    /\ UNCHANGED <<tables, response, inflight, now>>

\* memoize(key, effect, options): get, and on a miss set the effect's result
memoize(key, value, ttl, tags) ==
    IF cacheHit(key)
    THEN UNCHANGED vars
    ELSE set(key, value, ttl, tags)

NextCache ==
    \/ tick
    \/ \E k \in Keys : get(k)
    \/ \E k \in Keys, v \in Values, ttl \in Ttls, T \in SUBSET Tags : set(k, v, ttl, T)
    \/ \E k \in Keys : deleteKey(k)
    \/ \E T \in SUBSET Tags : invalidateTags(T)
    \/ clear
    \/ \E k \in Keys, v \in Values, ttl \in Ttls, T \in SUBSET Tags : memoize(k, v, ttl, T)

SpecCache == Init /\ [][NextCache]_vars

-----------------------------------------------------------------------------
(* Claims *)

VoteRowCount(votes, p, u) ==
    CopiesIn(voteRow(p, 0, u), votes) + CopiesIn(voteRow(p, 1, u), votes)
        + CopiesIn(voteRow(p, 2, u), votes)

Tally(votes, p) ==
    [k \in 1 .. Len(polls[p].options) |->
        Cardinality({u \in Voters : CopiesIn(voteRow(p, k - 1, u), votes) > 0})]

\* the options of a poll ranked by votes, most first, equal counts by index
RankOrder(tally) ==
    CHOOSE f \in [DOMAIN tally -> DOMAIN tally] :
        \A a, b \in DOMAIN tally :
            a < b => \/ tally[f[a]] > tally[f[b]]
                     \/ tally[f[a]] = tally[f[b]] /\ f[a] < f[b]

\* C2: on a single-vote poll, after any sequence of whole vote requests, a
\* voter holds at most one vote row.
SingleVoteAtMostOneRow ==
    \A p \in DOMAIN polls :
        ~polls[p].multiVote =>
            \A u \in Voters : VoteRowCount(pollVotes, p, u) <= 1

\* C2's case: a vote was just taken on a single-vote poll on which both
\* voters hold a vote.
SingleVoteAtMostOneRowWitness ==
    /\ response.op = "vote" /\ response.status = "ok"
    /\ response.pollId \in DOMAIN polls
    /\ ~polls[response.pollId].multiVote
    /\ \A u \in {"u1", "u2"} : VoteRowCount(pollVotes, response.pollId, u) = 1

\* C7: a vote on an active single-vote poll leaves the voter without a vote
\* when the voter's vote was on that option, and otherwise with exactly one
\* vote, on that option.
SingleVoteReplaces ==
    [][\A p \in {1, 2}, i \in OptionIndexes, u \in Voters :
          (/\ p \in DOMAIN polls
           /\ polls[p].active
           /\ ~polls[p].multiVote
           /\ pollVoteButton(p, i, u))
          => IF CopiesIn(voteRow(p, i, u), pollVotes) > 0
             THEN VoteRowCount(pollVotes', p, u) = 0
             ELSE /\ VoteRowCount(pollVotes', p, u) = 1
                  /\ CopiesIn(voteRow(p, i, u), pollVotes') = 1]_vars

\* C7's case: a vote on a single-vote poll that has left no vote at all: the
\* only voter with a vote has voted the same option again.
SingleVoteReplacesWitness ==
    /\ response.op = "vote" /\ response.status = "ok"
    /\ response.pollId \in DOMAIN polls
    /\ ~polls[response.pollId].multiVote
    /\ response.counts = <<0, 0, 0>>

\* C9: closing a phase-2 poll archives the option with the most votes, the
\* lowest index among those with the most, and that number of votes.
ClosePhase2RecordsWinner ==
    [][\A id \in DOMAIN polls :
          (polls[id].phase = 2 /\ polls[id].active /\ ~polls'[id].active)
          => \E k \in DOMAIN polls[id].options :
                LET tally == Tally(pollVotes, id)
                IN  /\ \A j \in DOMAIN tally : tally[j] <= tally[k]
                    /\ \A j \in 1 .. k - 1 : tally[j] < tally[k]
                    /\ pollWinners' = Append(pollWinners,
                          [guildId |-> polls[id].guildId,
                           month |-> polls[id].month,
                           bookTitle |-> polls[id].options[k],
                           voteCount |-> tally[k]])]_vars

\* C9's case: a phase-2 poll was closed with two options tied for the most
\* votes, neither of them the first option.
ClosePhase2RecordsWinnerWitness ==
    /\ response.op = "closePoll" /\ response.status = "ok"
    /\ polls[response.pollId].phase = 2
    /\ response.counts = <<0, 1, 1>>
    /\ Len(pollWinners) = 1
    /\ pollWinners[1].bookTitle = polls[response.pollId].options[2]

\* C10: a successful startFinalPoll adds one poll: the first three options of
\* the ranking of a closed phase-1 poll of the community, in ranked order,
\* single-vote, active, phase 2, with that poll as its parent.
FinalPollFromTop3 ==
    [][(response'.op = "startFinalPoll" /\ response'.status = "ok"
            /\ response' # response)
       => /\ Len(polls') = Len(polls) + 1
          /\ SubSeq(polls', 1, Len(polls)) = polls
          /\ LET new == polls'[Len(polls')]
                 parent == new.parentPollId
             IN  /\ parent \in DOMAIN polls
                 /\ polls[parent].phase = 1 /\ ~polls[parent].active
                 /\ polls[parent].guildId = new.guildId
                 /\ LET order == RankOrder(Tally(pollVotes, parent))
                    IN  new.options = [k \in 1 .. 3 |-> polls[parent].options[order[k]]]
                 /\ ~new.multiVote /\ new.active /\ new.phase = 2]_vars

\* C10's case: the phase-1 poll had the votes 1, 3, 2 and the final poll
\* lists its second, third and first option.
FinalPollFromTop3Witness ==
    /\ Len(polls) = 2
    /\ polls[2].parentPollId = 1
    /\ Tally(pollVotes, 1) = <<1, 3, 2>>
    /\ polls[2].options = <<polls[1].options[2], polls[1].options[3], polls[1].options[1]>>
    /\ response.op = "startFinalPoll"

\* C5: a vote on an active multi-vote poll removes the voter's row for the
\* option when there is one and adds it otherwise, and leaves the voter's rows
\* for the other options as they were.
MultiVoteToggles ==
    [][\A p \in PollIds, i \in OptionIndexes, u \in Voters :
          (/\ p \in DOMAIN polls
           /\ polls[p].active
           /\ polls[p].multiVote
           /\ pollVoteButton(p, i, u))
          => /\ CopiesIn(voteRow(p, i, u), pollVotes') =
                   (IF CopiesIn(voteRow(p, i, u), pollVotes) > 0 THEN 0 ELSE 1)
             /\ \A j \in OptionIndexes \ {i} :
                   CopiesIn(voteRow(p, j, u), pollVotes') =
                      CopiesIn(voteRow(p, j, u), pollVotes)]_vars

\* C5's case: after a vote on a multi-vote poll a voter holds votes on two
\* options at once.
MultiVoteTogglesWitness ==
    /\ response.op = "vote" /\ response.status = "ok"
    /\ response.pollId \in DOMAIN polls
    /\ polls[response.pollId].multiVote
    /\ CopiesIn(voteRow(response.pollId, 0, "u1"), pollVotes) = 1
    /\ CopiesIn(voteRow(response.pollId, 1, "u1"), pollVotes) = 1

\* the vote table after one more whole vote request on an active poll
VotedOnce(votes, p, i, u) ==
    votesAfterVote(votes, polls[p].multiVote, existingVotesOf(votes, p, u), p, i, u)

\* C6: on an active multi-vote poll one vote request flips the presence of the
\* voter's vote on the option, and two requests in a row give back the vote
\* table they started from.
VoteTwiceRestores ==
    \A p \in DOMAIN polls :
        (polls[p].active /\ polls[p].multiVote) =>
            \A i \in OptionIndexes, u \in Voters :
                LET once == VotedOnce(pollVotes, p, i, u)
                    twice == VotedOnce(once, p, i, u)
                IN  /\ (CopiesIn(voteRow(p, i, u), once) > 0)
                          = (CopiesIn(voteRow(p, i, u), pollVotes) = 0)
                    /\ twice = pollVotes

\* C6's case: requests were answered on an active multi-vote poll and have
\* left one voter with a vote and the other with none.
VoteTwiceRestoresWitness ==
    /\ response.op = "vote" /\ response.status = "ok"
    /\ polls[response.pollId].active /\ polls[response.pollId].multiVote
    /\ VoteRowCount(pollVotes, response.pollId, "u1") = 0
    /\ VoteRowCount(pollVotes, response.pollId, "u2") = 2

\* C8: the ranking lists the options by votes, most first, and options with
\* equal votes by ascending index; the top three are its first three entries.
RankingOrdered ==
    response.status \in {"ranked", "top3"} =>
        LET counts == response.counts
            options == seedOptions(Len(counts))
            order == RankOrder(counts)
            n == IF response.status = "top3" THEN 3 ELSE Len(counts)
        IN  response.ranking =
                [k \in 1 .. n |->
                    [title |-> options[order[k]], votes |-> counts[order[k]]]]

\* C8's case: the counts 5, 5, 2 are ranked first, second, third option.
RankingOrderedWitness ==
    /\ response.status = "ranked"
    /\ response.counts = <<5, 5, 2>>
    /\ response.ranking =
          [k \in 1 .. 3 |-> [title |-> seedOptions(3)[k], votes |-> <<5, 5, 2>>[k]]]

\* C3: while a voter's vote on a single-vote poll is moved from one option to
\* another, no instant shows that voter with no vote or with two: at every
\* instant of the request the voter holds exactly one vote row.
SingleVoteSwitchAtomic ==
    \A k \in DOMAIN inflight :
        LET r == inflight[k]
        IN  (/\ r.op = "vote" /\ ~r.multiVote
             /\ r.pc \in {"delete", "insert", "counts"}
             /\ r.existing # {} /\ r.optionIndex \notin r.existing
             /\ \A j \in DOMAIN inflight \ {k} : inflight[j].oderId # r.oderId)
            => VoteRowCount(pollVotes, r.pollId, r.oderId) = 1

\* C4: under concurrent votes of one voter the vote table never holds two
\* rows for one (poll, voter, option) of a multi-vote poll, nor two rows for
\* one (poll, voter) of a single-vote poll.
NoDuplicateVoteRows ==
    \A p \in DOMAIN polls : \A u \in Voters :
        IF polls[p].multiVote
        THEN \A i \in OptionIndexes : CopiesIn(voteRow(p, i, u), pollVotes) <= 1
        ELSE VoteRowCount(pollVotes, p, u) <= 1


\* the text "Title by Author"
TitleByAuthor(t, a) == t \o <<" ", "b", "y", " ">> \o a

StartPollConflictAnyMonth ==
    [][\A g \in Guilds, m \in Months :
          (startPoll(g, m) /\ activePollIds(polls, g) # {})
          => (response'.status = "Conflict" /\ polls' = polls)]_vars

\* C13: startFinalPoll of a community that has a closed phase-1 poll and an
\* active poll, of whatever phase, answers Conflict and adds no poll.
StartFinalPollConflict ==
    [][\A g \in Guilds :
          (/\ \E i \in DOMAIN polls :
                 polls[i].guildId = g /\ polls[i].phase = 1 /\ ~polls[i].active
           /\ \E i \in DOMAIN polls : polls[i].guildId = g /\ polls[i].active
           /\ startFinalPoll(g))
          => (response'.status = "Conflict" /\ polls' = polls)]_vars

\* C13's case: startFinalPoll was answered Conflict while the active poll is
\* one of the first round and the closed phase-1 poll has three voted options.
StartFinalPollConflictWitness ==
    /\ response.op = "startFinalPoll" /\ response.status = "Conflict"
    /\ Len(polls) = 2
    /\ polls[2].active /\ polls[2].phase = 1
    /\ Len(polls[1].options) = 3
    /\ \A k \in 1 .. 3 : Tally(pollVotes, 1)[k] > 0

\* C14: startPoll of a community and month with fewer than two nominations of
\* that community and month adds no poll and, unless an active poll of that
\* community and month is in its way, answers Precondition; the nominations of
\* other communities and months are not counted.
StartPollNeedsTwo ==
    [][\A g \in Guilds, m \in Months :
          (/\ startPoll(g, m)
           /\ Cardinality({i \in DOMAIN bookNominations :
                             /\ bookNominations[i].guildId = g
                             /\ bookNominations[i].month = m}) < 2)
          => /\ polls' = polls
             /\ (\A i \in DOMAIN polls :
                    ~(polls[i].guildId = g /\ polls[i].month = m /\ polls[i].active))
                => response'.status = "Precondition"]_vars

\* C14's case: three nominations are in the table, no two of one community and
\* month, and startPoll was answered Precondition.
StartPollNeedsTwoWitness ==
    /\ response.op = "startPoll" /\ response.status = "Precondition"
    /\ polls = <<>>
    /\ Len(bookNominations) = 3
    /\ \A i, j \in DOMAIN bookNominations :
          i # j => \/ bookNominations[i].guildId # bookNominations[j].guildId
                   \/ bookNominations[i].month # bookNominations[j].month

\* C15: startFinalPoll of a community without a closed phase-1 poll (no poll
\* at all, only an active phase-1 poll, or only polls of other communities)
\* answers Precondition and adds no poll.
StartFinalPollNeedsClosedPhase1 ==
    [][\A g \in Guilds :
          (/\ \A i \in DOMAIN polls :
                 ~(polls[i].guildId = g /\ polls[i].phase = 1 /\ ~polls[i].active)
           /\ startFinalPoll(g))
          => (response'.status = "Precondition" /\ polls' = polls)]_vars

\* C15's case: startFinalPoll was answered Precondition while the only poll
\* of the database is an active phase-1 poll holding a vote.
StartFinalPollNeedsClosedPhase1Witness ==
    /\ response.op = "startFinalPoll" /\ response.status = "Precondition"
    /\ Len(polls) = 1
    /\ polls[1].active /\ polls[1].phase = 1
    /\ pollVotes # EmptyBag

\* C16: startFinalPoll of a community with no active poll, whose most recent
\* closed phase-1 poll has fewer than three options (two options, whatever
\* their votes) or fewer than three options with a vote, answers Precondition
\* and adds no poll.
StartFinalPollNeedsThree ==
    [][\A g \in Guilds : \A p \in DOMAIN polls :
          (/\ polls[p].guildId = g /\ polls[p].phase = 1 /\ ~polls[p].active
           /\ \A i \in DOMAIN polls :
                 /\ (polls[i].guildId = g /\ polls[i].phase = 1 /\ ~polls[i].active)
                       => i <= p
                 /\ ~(polls[i].guildId = g /\ polls[i].active)
           /\ \/ Len(polls[p].options) < 3
              \/ Cardinality({k \in DOMAIN polls[p].options :
                                Tally(pollVotes, p)[k] > 0}) < 3
           /\ startFinalPoll(g))
          => (response'.status = "Precondition" /\ polls' = polls)]_vars

\* C16's case: the closed phase-1 poll has two options, each voted by all
\* three voters, and startFinalPoll was answered Precondition.
StartFinalPollNeedsThreeWitness ==
    /\ response.op = "startFinalPoll" /\ response.status = "Precondition"
    /\ Len(polls) = 1
    /\ Len(polls[1].options) = 2
    /\ Tally(pollVotes, 1) = <<3, 3>>

\* C17: a vote on a poll whose active flag is false is answered Conflict and
\* leaves the vote table as it was.
VoteOnClosedPollRejected ==
    [][\A p \in PollIds, i \in OptionIndexes, u \in Voters :
          (/\ p \in DOMAIN polls
           /\ ~polls[p].active
           /\ pollVoteButton(p, i, u))
          => (response'.status = "Conflict" /\ pollVotes' = pollVotes)]_vars

\* C17's case: a vote was answered Conflict on a closed poll on which both
\* voters hold votes.
VoteOnClosedPollRejectedWitness ==
    /\ response.op = "vote" /\ response.status = "Conflict"
    /\ Len(polls) = 1 /\ ~polls[1].active
    /\ VoteRowCount(pollVotes, 1, "u1") > 0
    /\ VoteRowCount(pollVotes, 1, "u2") > 0

\* C18: once a poll's active flag is false its vote rows never change,
\* whatever the interleaving of vote requests and closePoll: no request
\* inserts or deletes a row of a closed poll.
ClosedPollVotesFrozen ==
    [][\A p \in DOMAIN polls :
          ~polls[p].active =>
              \A i \in OptionIndexes, u \in Voters :
                  CopiesIn(voteRow(p, i, u), pollVotes') =
                      CopiesIn(voteRow(p, i, u), pollVotes)]_vars

\* C19: a vote whose option index is not one of 0 .. len(options)-1 of the
\* poll is answered ValidationError and writes no row.
VoteIndexValidated ==
    [][\A p \in PollIds, i \in OptionIndexes, u \in Voters :
          (/\ p \in DOMAIN polls
           /\ polls[p].active
           /\ i \notin 0 .. Len(polls[p].options) - 1
           /\ pollVoteButton(p, i, u))
          => (response'.status = "ValidationError" /\ pollVotes' = pollVotes)]_vars

\* C20: the count that a vote's snapshot, pollStatus and closePoll report for
\* each option of a poll is the number of distinct voters who hold a vote on
\* that option when the counts are read, also when votes run concurrently.
CountsAreDistinctVoters ==
    [][\A k \in 1 .. MaxRequests :
          /\ (voteCounts(k) \/ statusReadCounts(k))
                => response'.counts = Tally(pollVotes, response'.pollId)
          /\ closeReadCounts(k)
                => inflight'[k].counts = Tally(pollVotes, inflight[k].pollId)]_vars

\* C21: closePoll of a community without an active poll answers NotFound and
\* changes no row of any table: a closed poll is not closed or archived again.
ClosePollNotFound ==
    [][\A g \in Guilds :
          (/\ \A i \in DOMAIN polls : ~(polls[i].guildId = g /\ polls[i].active)
           /\ closePoll(g))
          => /\ response'.status = "NotFound"
             /\ polls' = polls /\ pollVotes' = pollVotes
             /\ pollWinners' = pollWinners]_vars

\* C21's case: closePoll was answered NotFound in a community whose phase-2
\* poll is closed and archived.
ClosePollNotFoundWitness ==
    /\ response.op = "closePoll" /\ response.status = "NotFound"
    /\ Len(polls) = 2
    /\ polls[2].phase = 2 /\ ~polls[2].active
    /\ Len(pollWinners) = 1

\* C22: every Winner row is of a community and month whose phase-2 poll is
\* closed, and the step that closes a phase-1 poll writes no Winner row.
WinnerOnlyAfterPhase2Close ==
    [][/\ \A w \in DOMAIN pollWinners' :
             \E p \in DOMAIN polls' :
                 /\ polls'[p].phase = 2 /\ ~polls'[p].active
                 /\ polls'[p].guildId = pollWinners'[w].guildId
                 /\ polls'[p].month = pollWinners'[w].month
       /\ (\E p \in DOMAIN polls :
              polls[p].phase = 1 /\ polls[p].active /\ ~polls'[p].active)
             => pollWinners' = pollWinners]_vars

\* C22's case: the phase-1 poll of the next month was closed with a vote on
\* it, and no Winner row was written.
WinnerOnlyAfterPhase2CloseWitness ==
    /\ response.op = "closePoll" /\ response.status = "ok"
    /\ response.pollId = 2
    /\ polls[2].phase = 1 /\ ~polls[2].active
    /\ response.counts[1] = 1
    /\ pollWinners = <<>>

Stage(rows, p) ==
    IF \E q \in DOMAIN rows : rows[q].parentPollId = p /\ ~rows[q].active THEN 4
    ELSE IF \E q \in DOMAIN rows : rows[q].parentPollId = p THEN 3
    ELSE IF ~rows[p].active THEN 2
    ELSE 1

OnlyActiveChangesOnce ==
    [][\A i \in DOMAIN polls :
          /\ i \in DOMAIN polls'
          /\ polls'[i] # polls[i] =>
                /\ polls[i].active
                /\ polls'[i] = [polls[i] EXCEPT !.active = FALSE]
                /\ response'.op = "closePoll"]_vars

\* C25's case: the phase-2 poll and, before it, its phase-1 parent were
\* closed, and a later startFinalPoll and vote have been answered.
OnlyActiveChangesOnceWitness ==
    /\ Len(polls) = 2
    /\ ~polls[1].active /\ ~polls[2].active
    /\ polls[2].phase = 2
    /\ response.op = "vote" /\ response.status = "Conflict"

\* C26: every phase-2 poll's parentPollId is the id of a poll of the same
\* community with phase 1 and active false, and no phase-1 poll has a
\* parentPollId.
Phase2HasClosedPhase1Parent ==
    \A i \in DOMAIN polls :
        IF polls[i].phase = 2
        THEN /\ polls[i].parentPollId \in DOMAIN polls
             /\ polls[polls[i].parentPollId].guildId = polls[i].guildId
             /\ polls[polls[i].parentPollId].phase = 1
             /\ ~polls[polls[i].parentPollId].active
        ELSE polls[i].parentPollId = NULL

\* C26's case: startFinalPoll has created a phase-2 poll from the closed
\* phase-1 poll and a vote was taken on it.
Phase2HasClosedPhase1ParentWitness ==
    /\ Len(polls) = 2
    /\ polls[2].phase = 2 /\ polls[2].active
    /\ polls[2].parentPollId = 1
    /\ response.op = "vote" /\ response.status = "ok"

ClosedPhase2HasWinner ==
    \A p \in DOMAIN polls :
        (/\ polls[p].phase = 2 /\ ~polls[p].active
         /\ \A k \in DOMAIN inflight :
               ~(inflight[k].op = "close" /\ inflight[k].pollId = p))
        => \E w \in DOMAIN pollWinners :
              /\ pollWinners[w].guildId = polls[p].guildId
              /\ pollWinners[w].month = polls[p].month

\* C29: a vote request that ends with a storage error leaves the voter's
\* votes as they were: when the insert of a switch from one option to another
\* on a single-vote poll fails, the voter still holds the vote on the old
\* option.
FailedSwitchKeepsVote ==
    [][\A k \in 1 .. MaxRequests :
          (/\ k \in DOMAIN inflight
           /\ inflight[k].op = "vote" /\ inflight[k].pc = "insert"
           /\ ~inflight[k].multiVote
           /\ inflight[k].existing # {}
           /\ \A j \in DOMAIN inflight \ {k} :
                 inflight[j].op = "vote" => inflight[j].oderId # inflight[k].oderId
           /\ voteFails(k))
          => \A a \in inflight[k].existing :
                CopiesIn(voteRow(inflight[k].pollId, a, inflight[k].oderId),
                         pollVotes') > 0]_vars

\* C30: nominate answers ValidationError and stores nothing whenever the
\* title or the author is empty after trimming, a title or author made only
\* of whitespace included.
NominateBlankRejected ==
    [][\A t \in TitleInputs, a \in AuthorInputs :
          (/\ trim(t) = <<>> \/ trim(a) = <<>>
           /\ nominateBook("g1", t, a, "2026-01"))
          => /\ response'.status = "ValidationError"
             /\ bookNominations' = bookNominations]_vars

\* how many entries of a listing are the record r
ListedCount(out, r) == Cardinality({k \in DOMAIN out : out[k] = r})

\* C31: listNominations(c, month) returns exactly the nominations stored for
\* c and the month, each as often as it is stored (identical titles stay
\* separate entries), none of another community or month, in ascending
\* order of nominatedAt.
ListNominationsExact ==
    [][\A g \in Guilds, m \in Months :
          (response'.op = "listNominations" /\ listNominations(g, m)) =>
             LET out == response'.nominations
                 stored == {i \in DOMAIN bookNominations :
                               /\ bookNominations[i].guildId = g
                               /\ bookNominations[i].month = m}
             IN  /\ Len(out) = Cardinality(stored)
                 /\ \A t \in Times, b \in {bookNominations[i].bookTitle : i \in DOMAIN bookNominations} :
                       ListedCount(out, [bookTitle |-> b, nominatedAt |-> t])
                          = Cardinality({i \in stored :
                               /\ bookNominations[i].bookTitle = b
                               /\ bookNominations[i].nominatedAt = t})
                 /\ \A i, j \in DOMAIN out :
                       i < j => out[i].nominatedAt <= out[j].nominatedAt
                 /\ bookNominations' = bookNominations]_vars

\* a listing of two entries with the same title, the later-stored first
\* because its instant is earlier, while another month holds a nomination
ListNominationsExactWitness ==
    /\ response.op = "listNominations"
    /\ Len(response.nominations) = 2
    /\ response.nominations[1].bookTitle = response.nominations[2].bookTitle
    /\ response.nominations[1].nominatedAt < response.nominations[2].nominatedAt
    /\ Len(bookNominations) = 3
    /\ bookNominations[1].guildId = "g1" /\ bookNominations[1].month = "2026-01"
    /\ bookNominations[1].nominatedAt = 2
    /\ bookNominations[2].guildId = "g1" /\ bookNominations[2].month = "2026-02"
    /\ bookNominations[3].guildId = "g1" /\ bookNominations[3].month = "2026-01"
    /\ bookNominations[3].nominatedAt = 1

\* C32: clearNominations(c, month) deletes every nomination of (c, month)
\* and none of another community or month; it answers ok also when there is
\* nothing to delete, in which case (as on a second call in a row) the
\* state stays as it is.
ClearNominationsExact ==
    [][\A g \in Guilds, m \in Months :
          clearNominations(g, m) =>
             /\ response'.status = "ok"
             /\ \A i \in DOMAIN bookNominations' :
                   ~(bookNominations'[i].guildId = g /\ bookNominations'[i].month = m)
             /\ \A g2 \in Guilds, m2 \in Months :
                   <<g2, m2>> # <<g, m>> =>
                      nominationsOf(bookNominations', g2, m2)
                         = nominationsOf(bookNominations, g2, m2)
             /\ Len(bookNominations') =
                   Len(bookNominations) - Len(nominationsOf(bookNominations, g, m))
             /\ (nominationsOf(bookNominations, g, m) = <<>>
                   => bookNominations' = bookNominations)
             /\ UNCHANGED <<polls, pollVotes, pollWinners>>]_vars

\* after a clear of (g1, 2026-01): none of its nominations is left, one of
\* the same community's other month and one of the other community's same
\* month are
ClearNominationsExactWitness ==
    /\ response.op = "clearNominations"
    /\ nominationsOf(bookNominations, "g1", "2026-01") = <<>>
    /\ Len(nominationsOf(bookNominations, "g1", "2026-02")) = 1
    /\ Len(nominationsOf(bookNominations, "g2", "2026-01")) = 1

\* C33: when a phase-2 poll is closed, the winner closePoll announces (the
\* first entry of the sorted results) is the option written to the Winner
\* archive (the first index holding the most votes), with the same number of
\* votes, ties included.
AnnouncedWinnerIsArchived ==
    [][\A id \in DOMAIN polls :
          (polls[id].phase = 2 /\ polls[id].active /\ ~polls'[id].active)
          => /\ Len(pollWinners') = Len(pollWinners) + 1
             /\ response'.op = "closePoll"
             /\ response'.winner = pollWinners'[Len(pollWinners')].bookTitle
             /\ response'.ranking[1].title = pollWinners'[Len(pollWinners')].bookTitle
             /\ response'.ranking[1].votes = pollWinners'[Len(pollWinners')].voteCount]_vars

\* a phase-2 poll closed with its first and its last option tied for the
\* most votes: the announced and the archived winner are the first option
AnnouncedWinnerIsArchivedWitness ==
    /\ response.op = "closePoll" /\ response.status = "ok"
    /\ polls[response.pollId].phase = 2
    /\ response.counts = <<1, 0, 1>>
    /\ response.winner = polls[response.pollId].options[1]
    /\ pollWinners[Len(pollWinners)].bookTitle = response.winner
    /\ pollWinners[Len(pollWinners)].voteCount = 1

\* C34: under any interleaving of votes with closePoll on a phase-2 poll, the
\* counts closePoll records (the Winner row's voteCount and the ranking are
\* computed from them) are the tally of the vote rows the poll holds at the
\* moment it is closed: no vote written between the count read and the
\* update is missing from them.
CloseRecordsTallyAtClose ==
    [][\A k \in 1 .. MaxRequests :
          (/\ k \in DOMAIN inflight
           /\ inflight[k].op = "close" /\ inflight[k].pc = "update"
           /\ inflight[k].phase = 2
           /\ closeUpdate(k))
          => inflight[k].counts = Tally(pollVotes, inflight[k].pollId)]_vars

\* C35: startFinalPoll(c) promotes the closed phase-1 poll of c with the
\* highest id: the new phase-2 poll has it as parent, has its month, and
\* lists the first three options of the ranking of its votes only; an older
\* closed phase-1 poll of c is never the one promoted.
PromotesNewestClosedPhase1 ==
    [][(/\ Len(polls') = Len(polls) + 1
        /\ polls'[Len(polls')].phase = 2)
       => LET new == polls'[Len(polls')]
              closed == {p \in DOMAIN polls :
                            /\ polls[p].guildId = new.guildId
                            /\ polls[p].phase = 1 /\ ~polls[p].active}
          IN  /\ new.parentPollId \in closed
              /\ \A p \in closed : p <= new.parentPollId
              /\ new.month = polls[new.parentPollId].month
              /\ LET order == RankOrder(Tally(pollVotes, new.parentPollId))
                 IN  new.options =
                        [k \in 1 .. 3 |-> polls[new.parentPollId].options[order[k]]]]_vars

\* the final poll was made from the later round although the earlier round
\* has votes on all of its three options
PromotesNewestClosedPhase1Witness ==
    /\ Len(polls) = 3
    /\ polls[3].phase = 2 /\ polls[3].parentPollId = 2
    /\ polls[3].month = "2026-02"
    /\ polls[1].phase = 1 /\ ~polls[1].active /\ polls[1].guildId = "g1"
    /\ \A k \in 1 .. 3 : Tally(pollVotes, 1)[k] > 0
    /\ polls[3].options # polls[1].options

\* C36: a successful closePoll(c) sets active to false on exactly one poll,
\* an active one of c, and changes no other poll; with k active polls of c
\* each call closes one, so closePoll answers NotFound only when none is
\* left, after k calls.
ClosePollClosesOne ==
    [][\A g \in Guilds :
          closePoll(g) =>
             IF activePollIds(polls, g) = {}
             THEN response'.status = "NotFound" /\ polls' = polls
             ELSE /\ response'.status = "ok"
                  /\ \E id \in activePollIds(polls, g) :
                        polls' = [polls EXCEPT ![id].active = FALSE]
                  /\ Cardinality(activePollIds(polls', g))
                        = Cardinality(activePollIds(polls, g)) - 1]_vars

\* one of two active polls of g1 was closed, the other is still active
ClosePollClosesOneWitness ==
    /\ response.op = "closePoll" /\ response.status = "ok"
    /\ Len(polls) = 2
    /\ polls[1].guildId = "g1" /\ polls[2].guildId = "g1"
    /\ response.pollId = 1
    /\ ~polls[1].active /\ polls[2].active

\* C37: the options of a poll are a snapshot taken when it is created: no
\* step (a nomination or a clear after startPoll, a vote, a close, another
\* start) removes a poll or changes its options, so an optionIndex denotes
\* the same title for the poll's whole life.
PollOptionsAreSnapshot ==
    [][\A id \in DOMAIN polls :
          /\ id \in DOMAIN polls'
          /\ polls'[id].options = polls[id].options
          /\ Len(polls'[id].options) > 0]_vars

\* the poll started from the nominations of 2026-02 still lists both titles,
\* holds a vote on its first option and is closed, after the nominations
\* were cleared and a title was nominated again
PollOptionsAreSnapshotWitness ==
    /\ Len(polls) = 2
    /\ polls[2].month = "2026-02" /\ ~polls[2].active
    /\ polls[2].options = <<bookEntry(<<"D">>, <<"H">>), bookEntry(<<"F">>, <<"H">>)>>
    /\ CopiesIn(voteRow(2, 0, "u1"), pollVotes) = 1
    /\ Len(bookNominations) = 1
    /\ bookNominations[1].bookTitle = bookEntry(<<"F">>, <<"H">>)

\* C38: closing an active phase-2 poll always adds a Winner row; when the
\* poll holds no vote, the row names the option at index 0 with voteCount 0.
ClosePhase2WithoutVotes ==
    [][\A id \in DOMAIN polls :
          (polls[id].phase = 2 /\ polls[id].active /\ ~polls'[id].active)
          => /\ Len(pollWinners') = Len(pollWinners) + 1
             /\ SubSeq(pollWinners', 1, Len(pollWinners)) = pollWinners
             /\ (\A r \in BagToSet(pollVotes) : r.pollId # id)
                   => LET w == pollWinners'[Len(pollWinners')]
                      IN  /\ w.bookTitle = polls[id].options[1]
                          /\ w.voteCount = 0
                          /\ w.guildId = polls[id].guildId
                          /\ w.month = polls[id].month]_vars

\* a final poll was closed while no vote row of it exists: the archive holds
\* its first option with no votes
ClosePhase2WithoutVotesWitness ==
    /\ response.op = "closePoll" /\ response.status = "ok"
    /\ polls[response.pollId].phase = 2
    /\ \A r \in BagToSet(pollVotes) : r.pollId # response.pollId
    /\ Len(pollWinners) = 1
    /\ pollWinners[1].voteCount = 0
    /\ pollWinners[1].bookTitle = polls[response.pollId].options[1]

\* an entry that get would still answer
Live(k) == k \in DOMAIN store /\ store[k].expiresAt >= now

\* C39: invalidateTags(tags) removes every live entry whose current tags
\* contain one of the given tags and no live entry whose current tags
\* contain none of them, whatever was set, set again with other tags,
\* deleted, expired or invalidated before.
InvalidateTagsExact ==
    [][\A T \in SUBSET Tags :
          invalidateTags(T) =>
             \A k \in Keys :
                Live(k) => (k \in DOMAIN store' <=> store[k].tags \cap T = {})]_vars

=============================================================================
